---- MODULE Spec2Model ----
(***************************************************************************)
(* Mise-En-Plaice: the browser client's combine session (App.js), the      *)
(* server's POST /combine route (routes/recipes.js with                    *)
(* combineRecipesStream) and the ingredient consolidator                   *)
(* (services/ingredientConsolidator.js).                                   *)
(*                                                                         *)
(* Strings that the code only stores and passes on are TLA+ strings.       *)
(* Strings that the code trims, lower-cases or searches are sequences of   *)
(* one-character strings.  A JavaScript object whose field may be absent   *)
(* is a record whose DOMAIN may lack that field.                           *)
(***************************************************************************)
EXTENDS Integers, Sequences, FiniteSets, TLC

\* ------------------------------------------------------------------ bounds
MaxSessions == 3
MaxEvents == 3
MaxRecipes == 2
MaxFragments == 2
MaxConsRecipes == 2
MaxIngredients == 2
MaxLines == 2
MaxCalls == 2
MaxRepeatRecipes == 1
MaxWords == 3

\* ------------------------------------------------------------- client state
VARIABLES
  recipes,                   \* useState: number of recipes the user has added
  mealPrepGuide,             \* useState: null, or the chunks appended so far
  isStreaming,
  savedFilename,
  recipesWithIngredients,
  consolidatedIngredients,
  consolidating,
  loading,
  error,
  consolidationTriggeredRef, \* useRef(false).current
  nextSession,               \* number of handleCombineRecipes calls made so far
  spc,                       \* per call: where the async handler is suspended
  captured,                  \* per call: recipesWithIngredients seen by its closure
  received,                  \* per call: the events its read loop has processed
  scheduled,                 \* per call: how many setTimeout calls it has made
  timers,                    \* pending setTimeout callbacks
  invoked,                   \* per call: the arguments of the handleConsolidateIngredients calls it caused
  inflight                   \* consolidate-ingredients fetches awaiting a response

\* ------------------------------------------------------------- server state
VARIABLES
  apiKeySet,        \* process.env.OPENAI_API_KEY is set
  cfgModel,         \* process.env.OPENAI_MODEL ("unset" when absent)
  reqBody,          \* req.body.recipes of the request being served
  rpc,              \* where the route handler is suspended
  extractor,        \* per recipe: state of its parse promise
  parsedRecipes,    \* per recipe: the value its parse promise resolved to
  headersSent,      \* res.headersSent
  jsonResponse,     \* the res.status(..).json(..) response, if any
  written,          \* the events given to res.write, in order
  resEnded,         \* res.end() was called
  attempt,          \* combineRecipesStream: "primary" or "fallback" create call
  fullText,         \* combineRecipesStream: the fullText of the running attempt
  upstream,         \* every fragment the generative service has emitted
  streamThrew,      \* combineRecipesStream rejected
  saveCalls,        \* the guide texts handed to saveGuide
  saveOutcome       \* "none", "saved" or "failed"

serverVars == <<apiKeySet, cfgModel, reqBody, rpc, extractor, parsedRecipes,
                headersSent, jsonResponse, written, resEnded, attempt, fullText,
                upstream, streamThrew, saveCalls, saveOutcome>>

\* ------------------------------------------------------- consolidator state
VARIABLES
  consRecipes,      \* the recipes argument of consolidateIngredients
  consUseOpenAI,    \* USE_OPENAI_CONSOLIDATION
  consPc,           \* "ready", "awaitingPrimary", "awaitingFallback", "returned", "threw"
  consResult,       \* the value the promise resolved to
  openaiClient,     \* the module's cached client exists
  consLog,          \* the generative requests of the current call, in order
  consReturned      \* the outcomes of the completed calls, in order

consVars == <<consRecipes, consUseOpenAI, consPc, consResult, openaiClient,
              consLog, consReturned>>

clientVars == <<recipes, mealPrepGuide, isStreaming, savedFilename,
                recipesWithIngredients, consolidatedIngredients, consolidating,
                loading, error, consolidationTriggeredRef, nextSession, spc,
                captured, received, scheduled, timers, invoked, inflight>>

\* ------------------------------------------- computeKeywordPriority state
VARIABLES
  prioText,         \* the text argument of computeKeywordPriority
  prioPc,           \* "ready" or "done"
  prioResult        \* the value returned

prioVars == <<prioText, prioPc, prioResult>>

\* ------------------------------------------------------------ parser state
VARIABLES
  parseFn,          \* "url" (parseRecipeFromUrl) or "text" (parseRecipeFromText)
  parseText,        \* the text argument of parseRecipeFromText
  parsePage,        \* what the scraping of the fetched page found
  parsePc,          \* "ready", "fetching", "awaitingPrimary", "awaitingFallback",
                    \* "returned" or "threw"
  parseResult,      \* the record the promise resolved to
  parseLog,         \* the generative requests of the call, in order
  parserClient      \* the module's cached client exists

parseVars == <<parseFn, parseText, parsePage, parsePc, parseResult, parseLog,
               parserClient>>

\* -------------------------------------------------------- connection state
VARIABLES
  closedAt          \* the connection of the combine request: open, or how
                    \* many writes and saveGuide calls the route had made
                    \* when the client went away

nonClientVars == <<serverVars, consVars, prioVars, parseVars, closedAt>>
nonServerVars == <<clientVars, consVars, prioVars, parseVars, closedAt>>
nonConsVars == <<clientVars, serverVars, prioVars, parseVars, closedAt>>
nonPrioVars == <<clientVars, serverVars, consVars, parseVars, closedAt>>
nonParseVars == <<clientVars, serverVars, consVars, prioVars, closedAt>>
vars == <<clientVars, serverVars, consVars, prioVars, parseVars, closedAt>>

Sessions == 1..MaxSessions

\* Recipe lists a metadata event (or a JSON response) may carry.
NoRecipes == << >>
RecipesNoIngredients ==
  << [title |-> "A", source |-> "manual input", ingredients |-> << >>] >>
RecipesA ==
  << [title |-> "A", source |-> "http://a", ingredients |-> <<"1 tsp salt">>] >>
RecipesB ==
  << [title |-> "A", source |-> "manual input", ingredients |-> << >>],
     [title |-> "B", source |-> "http://b", ingredients |-> <<"2 tbsp olive oil">>] >>
RecipeLists == {RecipesNoIngredients, RecipesA, RecipesB}

\* The events one line of the response stream can parse to.
MetadataEvents ==
  {[type |-> "metadata"]} \cup {[type |-> "metadata", recipes |-> r] : r \in RecipeLists}
ChunkEvents == {[type |-> "chunk", chunk |-> c] : c \in {"", "x"}}
DoneEvents == {[type |-> "done"], [type |-> "done", savedFilename |-> "guide.txt"]}
ErrorEvents == {[type |-> "error", error |-> "Failed to generate meal prep guide: upstream"]}
Events == MetadataEvents \cup ChunkEvents \cup DoneEvents \cup ErrorEvents

IsTerminal(ev) == ev.type \in {"done", "error"}

\* What the model remembers of a processed event: its type, and for a
\* metadata event its recipes.
Logged(data) == IF data.type = "metadata" THEN data ELSE [type |-> data.type]

RECURSIVE SumLen(_, _)
SumLen(f, n) == IF n = 0 THEN 0 ELSE Len(f[n]) + SumLen(f, n - 1)

\* The number of events processed so far, over all sessions.
EventsReceived == SumLen(received, MaxSessions)

HasTerminal(evs) == \E i \in 1..Len(evs) : IsTerminal(evs[i])

\* data.recipes || []
EventRecipes(data) == IF "recipes" \in DOMAIN data THEN data.recipes ELSE << >>

\* The catch block's mapping of err.message to the message shown.
CombineErrorMessage(msg) ==
  IF msg = "Failed to fetch" \/ msg = "Proxy error"
    THEN "Unable to connect to the backend server. Start it with: cd server && npm start"
    ELSE IF msg = "Unexpected token < in JSON"
      THEN "Server connection error."
      ELSE msg

ConsolidateErrorMessage(msg) ==
  IF msg = "Failed to fetch" \/ msg = "Proxy error"
    THEN "Unable to connect to the backend server."
    ELSE IF msg = "Unexpected token < in JSON"
      THEN "Server connection error."
      ELSE msg

\* The guard of the metadata branch (and of the non-streaming branch):
\* recipes && recipes.length > 0 && !consolidationTriggeredRef.current
MetadataTriggers(recs, flag) == Len(recs) > 0 /\ ~flag

\* The guard of the done branch: !consolidationTriggeredRef.current
DoneTriggers(flag) == ~flag

\* The value of the flag after a branch whose guard held.
FlagAfterTrigger == TRUE

\* The argument the metadata branch's timer passes: the event's recipes.
MetadataTimerRecipes(recs, closureRecipes) == recs

\* The argument the done branch's timer passes: the recipesWithIngredients
\* of the render whose handler is running.
DoneTimerRecipes(closureRecipes) == closureRecipes

\* mealPrepGuide is null or a string; a string is the sequence of its pieces.
NullGuide == [isNull |-> TRUE, text |-> << >>]
Guide(text) == [isNull |-> FALSE, text |-> text]

\* (prev || '') + chunk
AppendChunk(prev, chunk) == Guide(prev.text \o <<chunk>>)

\* What the response stream can deliver after the events evs: the server
\* ends the response right after writing its done or error event.
StreamDelivers(evs) == ~HasTerminal(evs)

Timer(s, path, recs) == [session |-> s, path |-> path, recipes |-> recs]

RemoveAt(seq, i) == SubSeq(seq, 1, i - 1) \o SubSeq(seq, i + 1, Len(seq))

ClientInit ==
  /\ recipes = 0
  /\ mealPrepGuide = NullGuide
  /\ isStreaming = FALSE
  /\ savedFilename = "null"
  /\ recipesWithIngredients = << >>
  /\ consolidatedIngredients = << >>
  /\ consolidating = FALSE
  /\ loading = FALSE
  /\ error = "null"
  /\ consolidationTriggeredRef = FALSE
  /\ nextSession = 0
  /\ spc = [s \in Sessions |-> "unused"]
  /\ captured = [s \in Sessions |-> << >>]
  /\ received = [s \in Sessions |-> << >>]
  /\ scheduled = [s \in Sessions |-> 0]
  /\ timers = << >>
  /\ invoked = [s \in Sessions |-> << >>]
  /\ inflight = << >>

\* RecipeInput: the user adds a recipe to the list.
AddRecipe ==
  /\ recipes = 0
  /\ recipes' = 1
  /\ UNCHANGED <<mealPrepGuide, isStreaming, savedFilename, recipesWithIngredients,
                 consolidatedIngredients, consolidating, loading, error,
                 consolidationTriggeredRef, nextSession, spc, captured, received,
                 scheduled, timers, invoked, inflight, nonClientVars>>

\* The combine button (disabled while loading or with no recipe) calls
\* handleCombineRecipes, which runs up to its await of fetch.
HandleCombineRecipes ==
  /\ ~loading /\ recipes # 0
  /\ nextSession < MaxSessions
  /\ LET s == nextSession + 1 IN
       /\ nextSession' = s
       /\ loading' = TRUE
       /\ error' = "null"
       /\ mealPrepGuide' = Guide(<< >>)
       /\ recipesWithIngredients' = << >>
       /\ savedFilename' = "null"
       /\ isStreaming' = FALSE
       /\ consolidationTriggeredRef' = FALSE
       /\ spc' = [spc EXCEPT ![s] = "fetching"]
       /\ captured' = [captured EXCEPT ![s] = recipesWithIngredients]
  /\ UNCHANGED <<recipes, consolidatedIngredients, consolidating, received,
                 scheduled, timers, invoked, inflight, nonClientVars>>

\* fetch rejects, or the response is not ok: the outer catch runs.
CombineFetchFails(s) ==
  /\ spc[s] = "fetching"
  /\ error' = CombineErrorMessage("Failed to fetch")
  /\ loading' = FALSE
  /\ spc' = [spc EXCEPT ![s] = "closed"]
  /\ UNCHANGED <<recipes, mealPrepGuide, isStreaming, savedFilename,
                 recipesWithIngredients, consolidatedIngredients, consolidating,
                 consolidationTriggeredRef, nextSession, captured, received,
                 scheduled, timers, invoked, inflight, nonClientVars>>

\* The response is ok and is an event stream: the read loop starts.
CombineFetchStreams(s) ==
  /\ spc[s] = "fetching"
  /\ isStreaming' = TRUE
  /\ spc' = [spc EXCEPT ![s] = "reading"]
  /\ UNCHANGED <<recipes, mealPrepGuide, savedFilename, recipesWithIngredients,
                 consolidatedIngredients, consolidating, loading, error,
                 consolidationTriggeredRef, nextSession, captured, received,
                 scheduled, timers, invoked, inflight, nonClientVars>>

\* The response is ok and is not an event stream: the non-streaming branch.
CombineFetchJson(s) ==
  /\ spc[s] = "fetching"
  /\ \E data \in {[mealPrepGuide |-> <<"x">>, recipes |-> RecipesA]} :
       LET recs == EventRecipes(data)
           fire == MetadataTriggers(recs, consolidationTriggeredRef) IN
         /\ mealPrepGuide' = Guide(data.mealPrepGuide)
         /\ savedFilename' = IF "savedFilename" \in DOMAIN data
                               THEN data.savedFilename ELSE "null"
         /\ recipesWithIngredients' = recs
         /\ loading' = FALSE
         /\ consolidationTriggeredRef' =
              IF fire THEN FlagAfterTrigger ELSE consolidationTriggeredRef
         /\ timers' = IF fire THEN Append(timers, Timer(s, "metadata",
                                      MetadataTimerRecipes(recs, captured[s])))
                              ELSE timers
         /\ scheduled' = IF fire THEN [scheduled EXCEPT ![s] = @ + 1] ELSE scheduled
  /\ spc' = [spc EXCEPT ![s] = "closed"]
  /\ UNCHANGED <<recipes, isStreaming, consolidatedIngredients, consolidating,
                 error, nextSession, captured, received, invoked, inflight, nonClientVars>>

\* One `data: ` line of the stream, parsed and handled by the read loop.
ReceiveMetadata(s) ==
  /\ spc[s] = "reading" /\ EventsReceived < MaxEvents
  /\ StreamDelivers(received[s])
  /\ \E data \in MetadataEvents :
       LET recs == EventRecipes(data)
           fire == MetadataTriggers(recs, consolidationTriggeredRef) IN
         /\ received' = [received EXCEPT ![s] = Append(@, Logged(data))]
         /\ recipesWithIngredients' = recs
         /\ consolidationTriggeredRef' =
              IF fire THEN FlagAfterTrigger ELSE consolidationTriggeredRef
         /\ timers' = IF fire THEN Append(timers, Timer(s, "metadata",
                                      MetadataTimerRecipes(recs, captured[s])))
                              ELSE timers
         /\ scheduled' = IF fire THEN [scheduled EXCEPT ![s] = @ + 1] ELSE scheduled
  /\ UNCHANGED <<recipes, mealPrepGuide, isStreaming, savedFilename,
                 consolidatedIngredients, consolidating, loading, error,
                 nextSession, spc, captured, invoked, inflight, nonClientVars>>

ReceiveChunk(s) ==
  /\ spc[s] = "reading" /\ EventsReceived < MaxEvents
  /\ StreamDelivers(received[s])
  /\ \E data \in ChunkEvents :
       /\ received' = [received EXCEPT ![s] = Append(@, Logged(data))]
       /\ mealPrepGuide' = IF data.chunk # ""
                             THEN AppendChunk(mealPrepGuide, data.chunk)
                             ELSE mealPrepGuide
  /\ UNCHANGED <<recipes, isStreaming, savedFilename, recipesWithIngredients,
                 consolidatedIngredients, consolidating, loading, error,
                 consolidationTriggeredRef, nextSession, spc, captured,
                 scheduled, timers, invoked, inflight, nonClientVars>>

ReceiveDone(s) ==
  /\ spc[s] = "reading" /\ EventsReceived < MaxEvents
  /\ StreamDelivers(received[s])
  /\ \E data \in DoneEvents :
       LET fire == DoneTriggers(consolidationTriggeredRef) IN
         /\ received' = [received EXCEPT ![s] = Append(@, Logged(data))]
         /\ isStreaming' = FALSE
         /\ savedFilename' = IF "savedFilename" \in DOMAIN data
                               THEN data.savedFilename ELSE savedFilename
         /\ loading' = FALSE
         /\ consolidationTriggeredRef' =
              IF fire THEN FlagAfterTrigger ELSE consolidationTriggeredRef
         /\ timers' = IF fire THEN Append(timers, Timer(s, "done",
                                      DoneTimerRecipes(captured[s])))
                              ELSE timers
         /\ scheduled' = IF fire THEN [scheduled EXCEPT ![s] = @ + 1] ELSE scheduled
  /\ UNCHANGED <<recipes, mealPrepGuide, recipesWithIngredients,
                 consolidatedIngredients, consolidating, error, nextSession, spc,
                 captured, invoked, inflight, nonClientVars>>

\* The error branch throws inside the try whose catch only warns.
ReceiveError(s) ==
  /\ spc[s] = "reading" /\ EventsReceived < MaxEvents
  /\ StreamDelivers(received[s])
  /\ \E data \in ErrorEvents :
       received' = [received EXCEPT ![s] = Append(@, Logged(data))]
  /\ isStreaming' = FALSE
  /\ UNCHANGED <<recipes, mealPrepGuide, savedFilename, recipesWithIngredients,
                 consolidatedIngredients, consolidating, loading, error,
                 consolidationTriggeredRef, nextSession, spc, captured,
                 scheduled, timers, invoked, inflight, nonClientVars>>

\* reader.read() reports the end of the stream: the loop breaks.
StreamEnds(s) ==
  /\ spc[s] = "reading"
  /\ spc' = [spc EXCEPT ![s] = "closed"]
  /\ UNCHANGED <<recipes, mealPrepGuide, isStreaming, savedFilename,
                 recipesWithIngredients, consolidatedIngredients, consolidating,
                 loading, error, consolidationTriggeredRef, nextSession,
                 captured, received, scheduled, timers, invoked, inflight,
                 nonClientVars>>

\* reader.read() rejects: the outer catch runs.
StreamReadFails(s) ==
  /\ spc[s] = "reading"
  /\ error' = CombineErrorMessage("network error")
  /\ loading' = FALSE
  /\ spc' = [spc EXCEPT ![s] = "closed"]
  /\ UNCHANGED <<recipes, mealPrepGuide, isStreaming, savedFilename,
                 recipesWithIngredients, consolidatedIngredients, consolidating,
                 consolidationTriggeredRef, nextSession, captured, received,
                 scheduled, timers, invoked, inflight, nonClientVars>>

\* handleConsolidateIngredients(recipesToConsolidate), up to its await of
\* fetch: recipesToConsolidate || recipesWithIngredients, and an array is
\* truthy even when empty.
ConsolidateRecipes(recipesToConsolidate, closureRecipes) == recipesToConsolidate

\* A setTimeout callback runs.  The done branch's callback calls
\* handleConsolidateIngredients only when its recipes are not empty.
TimerFires(i) ==
  /\ i \in 1..Len(timers)
  /\ LET t == timers[i]
         calls == t.path = "metadata" \/ Len(t.recipes) > 0
         recs == ConsolidateRecipes(t.recipes, captured[t.session])
         call == [session |-> t.session, recipes |-> recs] IN
       /\ timers' = RemoveAt(timers, i)
       /\ invoked' = IF calls THEN [invoked EXCEPT ![t.session] = Append(@, recs)]
                              ELSE invoked
       /\ IF calls /\ Len(recs) = 0
            THEN /\ error' = "No recipes with ingredients available."
                 /\ UNCHANGED <<consolidating, inflight>>
            ELSE IF calls
              THEN /\ consolidating' = TRUE
                   /\ error' = "null"
                   /\ inflight' = Append(inflight, call)
              ELSE UNCHANGED <<consolidating, error, inflight>>
  /\ UNCHANGED <<recipes, mealPrepGuide, isStreaming, savedFilename,
                 recipesWithIngredients, consolidatedIngredients, loading,
                 consolidationTriggeredRef, nextSession, spc, captured, received,
                 scheduled, nonClientVars>>

\* What the consolidate-ingredients endpoint answers for a recipe list.
ConsolidatedFor(recs) == <<[from |-> recs]>>

\* A handler whose finally block also clears the combine session's loading
\* flag.
ConsolidateRespondsEndingLoad(i) ==
  /\ i \in 1..Len(inflight)
  /\ inflight' = RemoveAt(inflight, i)
  /\ \/ /\ consolidatedIngredients' = ConsolidatedFor(inflight[i].recipes)
        /\ UNCHANGED error
     \/ /\ error' = ConsolidateErrorMessage("Failed to consolidate ingredients")
        /\ UNCHANGED consolidatedIngredients
  /\ consolidating' = FALSE
  /\ loading' = FALSE
  /\ UNCHANGED <<recipes, mealPrepGuide, isStreaming, savedFilename,
                 recipesWithIngredients, consolidationTriggeredRef,
                 nextSession, spc, captured, received, scheduled, timers,
                 invoked, nonClientVars>>

\* The consolidate-ingredients fetch settles.
ConsolidateResponds(i) ==
  /\ i \in 1..Len(inflight)
  /\ inflight' = RemoveAt(inflight, i)
  /\ \/ /\ consolidatedIngredients' = ConsolidatedFor(inflight[i].recipes)
        /\ UNCHANGED error
     \/ /\ error' = ConsolidateErrorMessage("Failed to consolidate ingredients")
        /\ UNCHANGED consolidatedIngredients
  /\ consolidating' = FALSE
  /\ UNCHANGED <<recipes, mealPrepGuide, isStreaming, savedFilename,
                 recipesWithIngredients, loading, consolidationTriggeredRef,
                 nextSession, spc, captured, received, scheduled, timers,
                 invoked, nonClientVars>>

ClientNext ==
  \/ AddRecipe
  \/ HandleCombineRecipes
  \/ \E s \in Sessions : CombineFetchFails(s)
  \/ \E s \in Sessions : CombineFetchStreams(s)
  \/ \E s \in Sessions : CombineFetchJson(s)
  \/ \E s \in Sessions : ReceiveMetadata(s)
  \/ \E s \in Sessions : ReceiveChunk(s)
  \/ \E s \in Sessions : ReceiveDone(s)
  \/ \E s \in Sessions : ReceiveError(s)
  \/ \E s \in Sessions : StreamEnds(s)
  \/ \E s \in Sessions : StreamReadFails(s)
  \/ \E i \in 1..(2 * MaxSessions) : TimerFires(i)
  \/ \E i \in 1..(2 * MaxSessions) : ConsolidateResponds(i)

\* ------------------------------------------------------------ client claims
TimerPending(s) == \E i \in 1..Len(timers) : timers[i].session = s
CarriesIngredients(recs) == \E i \in 1..Len(recs) : Len(recs[i].ingredients) > 0

\* C1: within one combine session (from the reset of the flag until the
\* session's response stream ends) handleConsolidateIngredients is scheduled
\* at most once, whatever events the session receives and in whatever order.
C1_ScheduledAtMostOnce == \A s \in Sessions : scheduled[s] <= 1

\* A session whose stream was: one metadata event whose recipes carry
\* ingredients, then chunks, then done.
MetadataThenDone(s) ==
  LET evs == received[s] IN
    /\ Len(evs) >= 2
    /\ evs[1].type = "metadata"
    /\ CarriesIngredients(EventRecipes(evs[1]))
    /\ evs[Len(evs)].type = "done"
    /\ \A i \in 2..(Len(evs) - 1) : evs[i].type = "chunk"

\* C2: a session that received a metadata event whose recipes carry
\* ingredients and later a done event invokes consolidation exactly once,
\* with the metadata event's recipe list; the done event adds no call.
C2_InvokedOnceWithMetadataRecipes ==
  \A s \in Sessions :
    MetadataThenDone(s) =>
      /\ Len(invoked[s]) <= 1
      /\ \A i \in 1..Len(invoked[s]) : invoked[s][i] = EventRecipes(received[s][1])
      /\ ~TimerPending(s) => Len(invoked[s]) = 1

\* C23: in a first session that has processed just its metadata event,
\* consolidation has been scheduled and the trigger flag is set if and only
\* if a recipe of the event has a non-empty ingredient list.
C23_MetadataTriggersIffIngredients ==
  (nextSession = 1 /\ Len(received[1]) = 1 /\ received[1][1].type = "metadata") =>
    /\ scheduled[1] = 1 <=> CarriesIngredients(EventRecipes(received[1][1]))
    /\ consolidationTriggeredRef <=>
         CarriesIngredients(EventRecipes(received[1][1]))

\* A step of handleConsolidateIngredients: a timer callback runs it up to
\* its fetch, or its fetch settles.
ConsolidationStep ==
  Len(timers') < Len(timers) \/ Len(inflight') < Len(inflight)

\* C24: starting, completing or failing handleConsolidateIngredients leaves
\* the guide text, the streaming flag, the loading flag and the saved
\* filename unchanged, and leaves every session's read loop where it was,
\* with the events it has processed.
C24_ConsolidationLeavesStreamAlone ==
  [][ConsolidationStep =>
       UNCHANGED <<mealPrepGuide, isStreaming, loading, savedFilename, spc,
                   received>>]_vars

\* A consolidation was answered while its session was still reading, and a
\* chunk was processed in that session.
C24_Witness ==
  \E s \in Sessions :
    /\ spc[s] = "reading" /\ loading /\ isStreaming
    /\ Len(invoked[s]) = 1 /\ inflight = << >> /\ ~consolidating
    /\ consolidatedIngredients # << >>
    /\ Len(received[s]) >= 2 /\ received[s][Len(received[s])].type = "chunk"

\* The recipes of the last metadata event the session has processed.
SessionRecipes(s) ==
  LET at == {i \in 1..Len(received[s]) : received[s][i].type = "metadata"} IN
    IF at = {} THEN << >>
    ELSE EventRecipes(received[s][CHOOSE i \in at : \A j \in at : j <= i])

\* No metadata event of the session carried a recipe, so its metadata
\* branch scheduled nothing.
MetadataNeverTriggered(s) ==
  \A i \in 1..Len(received[s]) :
    received[s][i].type = "metadata" => Len(EventRecipes(received[s][i])) = 0

\* C28: in a session whose metadata branch did not trigger and that
\* received done, every consolidation the session causes is given the
\* recipes of this session's metadata, not a list of an earlier session.
C28_DonePathUsesSessionRecipes ==
  \A s \in Sessions :
    (MetadataNeverTriggered(s) /\ HasTerminal(received[s])
       /\ received[s][Len(received[s])].type = "done") =>
      \A i \in 1..Len(invoked[s]) : invoked[s][i] = SessionRecipes(s)

\* Every handleCombineRecipes call made so far has run to its end.
AllSessionsOver ==
  nextSession >= 1 /\ \A s \in 1..nextSession : spc[s] = "closed"

\* C29: once every combine session has ended, with a done event, with an
\* error event or with the stream closing, loading is false again; and
\* the message of an error event that ended a lone session, with no
\* consolidation run since, is in the error state.
C29_SessionLeavesLoading ==
  /\ AllSessionsOver => ~loading
  /\ (nextSession = 1 /\ spc[1] = "closed" /\ received[1] # << >>
        /\ received[1][Len(received[1])].type = "error"
        /\ invoked[1] = << >> /\ timers = << >>) =>
       error = "Failed to generate meal prep guide: upstream"

\* C30: while the newest session has caused no consolidation call, the
\* client holds no consolidated list: any list held then was computed from
\* an earlier session's recipes.
C30_NoListFromEarlierSession ==
  (nextSession >= 1 /\ invoked[nextSession] = << >>) =>
    consolidatedIngredients = << >>

\* ------------------------------------------------------------ server model
\* req.body of POST /combine: {} or {recipes: [...]}.
RecipeSources == [type : {"url", "text", "image"}, content : {"c", ""}]

RECURSIVE SeqsUpTo(_, _)
SeqsUpTo(S, n) ==
  IF n = 0 THEN {<< >>}
  ELSE LET shorter == SeqsUpTo(S, n - 1) IN
         shorter \cup {Append(q, x) : q \in shorter, x \in S}

Bodies == {[other |-> "x"]} \cup {[recipes |-> q] : q \in SeqsUpTo(RecipeSources, MaxRecipes)}

\* !recipes || !Array.isArray(recipes) || recipes.length === 0
NoRecipeGiven(body) == "recipes" \notin DOMAIN body \/ Len(body.recipes) = 0

\* recipes.find((recipe) => recipe.type !== 'url' && recipe.type !== 'text')
HasInvalidType(body) ==
  \E i \in 1..Len(body.recipes) : body.recipes[i].type \notin {"url", "text"}

\* What parseRecipeFromUrl can resolve to.
UrlParsed(content) ==
  { [title |-> "Untitled Recipe", source |-> content, ingredients |-> << >>,
     instructions |-> << >>, rawContent |-> "body"],
    [title |-> "Soup", source |-> content, ingredients |-> <<"1 tsp salt">>,
     instructions |-> <<"boil">>, rawContent |-> "body"] }

\* What parseRecipeFromText can resolve to: the minimal record, or the
\* record built from the generative extraction.
TextParsed(content) ==
  { [title |-> "Manual Recipe", source |-> "manual input", rawContent |-> content],
    [title |-> "Salad", source |-> "manual input",
     ingredients |-> <<"2 tbsp olive oil">>, instructions |-> << >>,
     rawContent |-> content] }

\* parseRecipeFromText throws on !text || typeof text !== 'string'.
TextIsInvalid(content) == content = ""

\* The values a recipe's parse promise can resolve to (none: it can only
\* reject).  A URL's fetch may fail whatever the URL.
CanResolveTo(src) ==
  IF src.type = "url" THEN UrlParsed(src.content)
  ELSE IF TextIsInvalid(src.content) THEN {} ELSE TextParsed(src.content)

CanReject(src) == src.type = "url" \/ TextIsInvalid(src.content)

\* The message of the error a rejected parse promise carries.
RejectionMessage(src) ==
  IF src.type = "url" THEN "Failed to parse recipe from URL: Network Error"
  ELSE "Invalid recipe text provided"

NotParsed == [pending |-> TRUE]

\* A metadata entry that passes the parsed recipe on whole.
MetadataEntryWhole(recipe) == recipe

\* recipe => ({title, source, ingredients: recipe.ingredients || []})
MetadataEntry(recipe) ==
  [title |-> recipe.title, source |-> recipe.source,
   ingredients |-> IF "ingredients" \in DOMAIN recipe THEN recipe.ingredients ELSE << >>]

MetadataEvent(parsed) ==
  [type |-> "metadata", recipes |-> [i \in 1..Len(parsed) |-> MetadataEntry(parsed[i])]]

\* Messages of the errors the generative service raises.
UpstreamErrors == {"The model gpt-4 does not exist", "timeout", ""}

\* error.message.includes('gpt-4')
MentionsGpt4(msg) == msg = "The model gpt-4 does not exist"

\* `Failed to generate meal prep guide: ${error.message}`
Wrapped(msg) ==
  CASE msg = "The model gpt-4 does not exist"
         -> "Failed to generate meal prep guide: The model gpt-4 does not exist"
    [] msg = "timeout" -> "Failed to generate meal prep guide: timeout"
    [] OTHER -> "Failed to generate meal prep guide: "

NoApiKeyMessage == "OPENAI_API_KEY is not set in environment variables"

\* The catch of combineRecipesStream retries with gpt-3.5-turbo when the
\* first attempt's error names gpt-4 and the configured model is not
\* gpt-3.5-turbo.
FallsBack(att, msg) ==
  att = "primary" /\ MentionsGpt4(msg) /\ cfgModel # "gpt-3.5-turbo"

\* A route whose inner and outer catch both write the error.
EventsOnStreamErrorTwice(message) ==
  << [type |-> "error", error |-> message], [type |-> "error", error |-> message] >>

\* A route that answers a stream failure with the completion signal.
EventsOnStreamErrorAsDone(message) == << [type |-> "done"] >>

\* The inner catch: streamError.message || 'Failed to generate meal prep guide'
EventsOnStreamError(message) ==
  << [type |-> "error",
      error |-> IF message = "" THEN "Failed to generate meal prep guide" ELSE message] >>

\* A route that reports a failed save as an error.
SaveSettledEventStrict(filename) ==
  IF filename = "null" THEN [type |-> "error", error |-> "Failed to save guide to file"]
  ELSE [type |-> "done", savedFilename |-> filename]

\* {type: 'done', savedFilename: savedFilename || undefined}
SaveSettledEvent(filename) ==
  IF filename = "null" THEN [type |-> "done"]
  ELSE [type |-> "done", savedFilename |-> filename]

\* An outer catch that always answers on the stream.
CatchAnswersJsonNever(sent) == FALSE

\* The outer catch: if (!res.headersSent) answer with JSON.
CatchAnswersJson(sent) == ~sent

ServerInit ==
  /\ apiKeySet \in BOOLEAN
  /\ cfgModel \in {"unset", "gpt-4-turbo", "gpt-3.5-turbo"}
  /\ reqBody = [other |-> "x"]
  /\ rpc = "idle"
  /\ extractor = << >>
  /\ parsedRecipes = << >>
  /\ headersSent = FALSE
  /\ jsonResponse = << >>
  /\ written = << >>
  /\ resEnded = FALSE
  /\ attempt = "primary"
  /\ fullText = << >>
  /\ upstream = << >>
  /\ streamThrew = FALSE
  /\ saveCalls = << >>
  /\ saveOutcome = "none"

\* router.post('/combine') up to the await of Promise.all.
ReceiveCombine ==
  /\ rpc = "idle"
  /\ \E body \in Bodies :
       /\ reqBody' = body
       /\ IF NoRecipeGiven(body)
            THEN /\ jsonResponse' = <<[status |-> 400,
                                       error |-> "Please provide at least one recipe"]>>
                 /\ rpc' = "ended"
                 /\ UNCHANGED <<extractor, parsedRecipes>>
            ELSE IF HasInvalidType(body)
              THEN /\ jsonResponse' = <<[status |-> 400,
                                         error |-> "Invalid recipe type. Use \"url\" or \"text\""]>>
                   /\ rpc' = "ended"
                   /\ UNCHANGED <<extractor, parsedRecipes>>
              ELSE /\ extractor' = [i \in 1..Len(body.recipes) |-> "pending"]
                   /\ parsedRecipes' = [i \in 1..Len(body.recipes) |-> NotParsed]
                   /\ rpc' = "parsing"
                   /\ UNCHANGED jsonResponse
  /\ UNCHANGED <<apiKeySet, cfgModel, headersSent, written, resEnded, attempt,
                 fullText, upstream, streamThrew, saveCalls, saveOutcome,
                 nonServerVars>>

\* One parse promise rejects.  The first rejection rejects Promise.all and
\* the outer catch answers; later ones find the request already answered.
ExtractorRejects(i) ==
  /\ rpc # "idle" /\ i \in 1..Len(extractor)
  /\ extractor[i] = "pending"
  /\ CanReject(reqBody.recipes[i])
  /\ extractor' = [extractor EXCEPT ![i] = "rejected"]
  /\ IF rpc = "parsing"
       THEN /\ rpc' = "ended"
            /\ IF CatchAnswersJson(headersSent)
                 THEN /\ jsonResponse' = Append(jsonResponse,
                           [status |-> 500,
                            error |-> RejectionMessage(reqBody.recipes[i])])
                      /\ UNCHANGED <<written, resEnded>>
                 ELSE /\ written' = Append(written,
                           [type |-> "error",
                            error |-> RejectionMessage(reqBody.recipes[i])])
                      /\ resEnded' = TRUE
                      /\ UNCHANGED jsonResponse
       ELSE UNCHANGED <<rpc, jsonResponse, written, resEnded>>
  /\ UNCHANGED <<apiKeySet, cfgModel, reqBody, parsedRecipes, headersSent, attempt,
                 fullText, upstream, streamThrew, saveCalls, saveOutcome,
                 nonServerVars>>

\* One parse promise resolves.  When it is the last one and none was
\* rejected, Promise.all resolves: the headers are set, the metadata event
\* is written and combineRecipesStream runs to its first await (or throws
\* for want of the API key, which the inner catch answers).
ExtractorResolves(i) ==
  /\ rpc # "idle" /\ i \in 1..Len(extractor)
  /\ extractor[i] = "pending"
  /\ \E r \in CanResolveTo(reqBody.recipes[i]) :
       LET ext == [extractor EXCEPT ![i] = "resolved"]
           parsed == [parsedRecipes EXCEPT ![i] = r]
           all == \A j \in 1..Len(ext) : ext[j] = "resolved" IN
         /\ extractor' = ext
         /\ parsedRecipes' = parsed
         /\ IF rpc = "parsing" /\ all
              THEN /\ headersSent' = TRUE
                   /\ IF apiKeySet
                        THEN /\ written' = <<MetadataEvent(parsed)>>
                             /\ rpc' = "creating"
                             /\ UNCHANGED <<resEnded, streamThrew>>
                        ELSE /\ written' = <<MetadataEvent(parsed)>>
                                             \o EventsOnStreamError(NoApiKeyMessage)
                             /\ resEnded' = TRUE
                             /\ streamThrew' = TRUE
                             /\ rpc' = "ended"
              ELSE UNCHANGED <<headersSent, written, rpc, resEnded, streamThrew>>
  /\ UNCHANGED <<apiKeySet, cfgModel, reqBody, jsonResponse, attempt, fullText,
                 upstream, saveCalls, saveOutcome, nonServerVars>>

\* The catch of combineRecipesStream, and the route's inner catch when it
\* rethrows.
StreamErrorCaught(msg) ==
  IF FallsBack(attempt, msg)
    THEN /\ attempt' = "fallback"
         /\ rpc' = "creating"
         /\ UNCHANGED <<written, resEnded, streamThrew>>
    ELSE /\ written' = written \o EventsOnStreamError(Wrapped(msg))
         /\ resEnded' = TRUE
         /\ streamThrew' = TRUE
         /\ rpc' = "ended"
         /\ UNCHANGED attempt

\* chat.completions.create({stream: true}) returns the stream.
CreateReturns ==
  /\ rpc = "creating"
  /\ rpc' = "iterating"
  /\ fullText' = << >>
  /\ UNCHANGED <<apiKeySet, cfgModel, reqBody, extractor, parsedRecipes,
                 headersSent, jsonResponse, written, resEnded, attempt, upstream,
                 streamThrew, saveCalls, saveOutcome, nonServerVars>>

\* chat.completions.create rejects.
CreateFails ==
  /\ rpc = "creating"
  /\ \E msg \in UpstreamErrors : StreamErrorCaught(msg)
  /\ UNCHANGED <<apiKeySet, cfgModel, reqBody, extractor, parsedRecipes,
                 headersSent, jsonResponse, fullText, upstream, saveCalls,
                 saveOutcome, nonServerVars>>

\* The stream yields a fragment: chunk.choices[0]?.delta?.content || ''.
\* A non-empty one is appended to fullText and given to onChunk, which
\* writes the chunk event.
UpstreamFragment ==
  /\ rpc = "iterating"
  /\ Len(upstream) < MaxFragments
  /\ \E content \in {"", "a", "b"} :
       /\ upstream' = Append(upstream, [attempt |-> attempt, content |-> content])
       /\ IF content # ""
            THEN /\ fullText' = Append(fullText, content)
                 /\ written' = Append(written, [type |-> "chunk", chunk |-> content])
            ELSE UNCHANGED <<fullText, written>>
  /\ UNCHANGED <<apiKeySet, cfgModel, reqBody, rpc, extractor, parsedRecipes,
                 headersSent, jsonResponse, resEnded, attempt, streamThrew,
                 saveCalls, saveOutcome, nonServerVars>>

\* The stream ends: combineRecipesStream returns fullText and the route
\* calls saveGuide with it.
UpstreamEnds ==
  /\ rpc = "iterating"
  /\ saveCalls' = Append(saveCalls, fullText)
  /\ rpc' = "saving"
  /\ UNCHANGED <<apiKeySet, cfgModel, reqBody, extractor, parsedRecipes,
                 headersSent, jsonResponse, written, resEnded, attempt, fullText,
                 upstream, streamThrew, saveOutcome, nonServerVars>>

\* The stream's iterator throws.
UpstreamFails ==
  /\ rpc = "iterating"
  /\ \E msg \in UpstreamErrors : StreamErrorCaught(msg)
  /\ UNCHANGED <<apiKeySet, cfgModel, reqBody, extractor, parsedRecipes,
                 headersSent, jsonResponse, fullText, upstream, saveCalls,
                 saveOutcome, nonServerVars>>

\* saveGuide settles; its failure is logged; the done event is written and
\* the response ended.
SaveSettles ==
  /\ rpc = "saving"
  /\ \E filename \in {"meal-prep-guide.txt", "null"} :
       /\ saveOutcome' = IF filename = "null" THEN "failed" ELSE "saved"
       /\ written' = Append(written, SaveSettledEvent(filename))
  /\ resEnded' = TRUE
  /\ rpc' = "ended"
  /\ UNCHANGED <<apiKeySet, cfgModel, reqBody, extractor, parsedRecipes,
                 headersSent, jsonResponse, attempt, fullText, upstream,
                 streamThrew, saveCalls, nonServerVars>>

ServerNext ==
  \/ ReceiveCombine
  \/ \E i \in 1..MaxRecipes : ExtractorRejects(i)
  \/ \E i \in 1..MaxRecipes : ExtractorResolves(i)
  \/ CreateReturns
  \/ CreateFails
  \/ UpstreamFragment
  \/ UpstreamEnds
  \/ UpstreamFails
  \/ SaveSettles

\* ------------------------------------------------------------ server claims
TerminalAt(evs) == {i \in 1..Len(evs) : evs[i].type \in {"done", "error"}}

IsChunk(ev) == ev.type = "chunk"

ChunkText(evs) ==
  LET chunks == SelectSeq(evs, IsChunk) IN [i \in 1..Len(chunks) |-> chunks[i].chunk]

\* C3: a streaming session's events hold at most one terminal event (done
\* or error), nothing is written after it, and once the request is over the
\* stream holds exactly one, in last place, with the response ended.
C3_OneTerminalEventLast ==
  /\ Cardinality(TerminalAt(written)) <= 1
  /\ TerminalAt(written) \subseteq {Len(written)}
  /\ resEnded <=> TerminalAt(written) # {}
  /\ (headersSent /\ rpc = "ended") => TerminalAt(written) = {Len(written)}

C3_Witness ==
  /\ rpc = "ended" /\ attempt = "fallback"
  /\ \E i \in 1..Len(written) : written[i].type = "chunk"
  /\ written[Len(written)].type = "error"

\* C4: in every streaming session the metadata event is written exactly
\* once and first, and each of its entries holds exactly the title, the
\* source and the ingredient list of the parsed recipe in the same place
\* (the empty list when the recipe has none); instructions and raw content
\* never appear.
C4_MetadataOnceFirstProjected ==
  headersSent =>
    /\ Len(written) >= 1
    /\ {i \in 1..Len(written) : written[i].type = "metadata"} = {1}
    /\ DOMAIN written[1] = {"type", "recipes"}
    /\ Len(written[1].recipes) = Len(reqBody.recipes)
    /\ \A j \in 1..Len(written[1].recipes) :
         LET entry == written[1].recipes[j]
             recipe == parsedRecipes[j] IN
           /\ DOMAIN entry = {"title", "source", "ingredients"}
           /\ entry.title = recipe.title
           /\ entry.source = recipe.source
           /\ entry.ingredients =
                (IF "ingredients" \in DOMAIN recipe THEN recipe.ingredients ELSE << >>)

C4_Witness ==
  /\ headersSent /\ Len(written) >= 3
  /\ \E j \in 1..Len(parsedRecipes) : "ingredients" \notin DOMAIN parsedRecipes[j]
  /\ \E j \in 1..Len(parsedRecipes) : "instructions" \in DOMAIN parsedRecipes[j]

\* C5: once any extractor has failed, the request is answered by a single
\* structured error response (status 500 with a message) and no stream
\* event is ever written, whatever the other extractors did or do.
C5_ExtractorFailureNoStream ==
  (\E i \in 1..Len(extractor) : extractor[i] = "rejected") =>
    /\ written = << >> /\ ~headersSent /\ ~resEnded
    /\ Len(jsonResponse) = 1
    /\ jsonResponse[1].status = 500 /\ jsonResponse[1].error # ""
    /\ rpc = "ended"

C5_Witness ==
  /\ Len(extractor) = 2
  /\ extractor[1] = "resolved" /\ extractor[2] = "rejected"
  /\ Len(jsonResponse) = 1

\* C6: the chunk events carry the non-empty fragments the generative
\* service emitted, each once and in order, and the text handed to saveGuide
\* equals the concatenation of all chunk events written.
C6_SavedTextIsChunkConcatenation ==
  /\ ChunkText(written) =
       LET emitted == SelectSeq(upstream, LAMBDA f : f.content # "") IN
         [i \in 1..Len(emitted) |-> emitted[i].content]
  /\ \A k \in 1..Len(saveCalls) : saveCalls[k] = ChunkText(written)

C8_SaveFailureStillDone ==
  /\ [](saveOutcome = "failed" =>
          /\ written[Len(written)] = [type |-> "done"]
          /\ \A i \in 1..Len(written) : written[i].type # "error"
          /\ resEnded)
  /\ [][(saveOutcome = "none" /\ saveOutcome' = "failed") =>
          written' = Append(written, [type |-> "done"])]_vars

C8_Witness ==
  /\ saveOutcome = "failed"
  /\ \E i \in 1..Len(written) : written[i].type = "chunk"

\* ------------------------------------------------------ consolidator model
\* KEYWORD_PRIORITIES: the keyword at index i has priority i - 1.
KEYWORD_PRIORITIES ==
  << <<"o", "i", "l">>,
     <<"b", "u", "t", "t", "e", "r">>,
     <<"g", "a", "r", "l", "i", "c">>,
     <<"o", "n", "i", "o", "n">>,
     <<"s", "a", "l", "t">>,
     <<"p", "e", "p", "p", "e", "r">>,
     <<"s", "u", "g", "a", "r">>,
     <<"f", "l", "o", "u", "r">>,
     <<"e", "g", "g">>,
     <<"m", "i", "l", "k">>,
     <<"c", "r", "e", "a", "m">>,
     <<"c", "h", "e", "e", "s", "e">>,
     <<"t", "o", "m", "a", "t", "o">>,
     <<"c", "h", "i", "c", "k", "e", "n">>,
     <<"b", "e", "e", "f">>,
     <<"p", "a", "s", "t", "a">>,
     <<"r", "i", "c", "e">>,
     <<"b", "e", "a", "n", "s">>,
     <<"l", "e", "m", "o", "n">>,
     <<"v", "i", "n", "e", "g", "a", "r">>,
     <<"b", "r", "o", "t", "h">>,
     <<"p", "o", "t", "a", "t", "o">>,
     <<"c", "a", "r", "r", "o", "t">>,
     <<"c", "e", "l", "e", "r", "y">>,
     <<"s", "p", "i", "n", "a", "c", "h">>,
     <<"m", "u", "s", "h", "r", "o", "o", "m">>,
     <<"b", "a", "c", "o", "n">>,
     <<"s", "a", "u", "s", "a", "g", "e">>,
     <<"f", "i", "s", "h">>,
     <<"s", "h", "r", "i", "m", "p">>,
     <<"p", "o", "r", "k">> >>

DEFAULT_PRIORITY == Len(KEYWORD_PRIORITIES)

UpperCase ==
  <<"A", "B", "C", "D", "E", "F", "G", "H", "I", "J", "K", "L", "M", "N", "O", "P", "Q", "R", "S", "T", "U", "V", "W", "X", "Y", "Z">>

LowerCase ==
  <<"a", "b", "c", "d", "e", "f", "g", "h", "i", "j", "k", "l", "m", "n", "o", "p", "q", "r", "s", "t", "u", "v", "w", "x", "y", "z">>

LowerChar(c) ==
  IF \E i \in 1..Len(UpperCase) : UpperCase[i] = c
    THEN LowerCase[CHOOSE i \in 1..Len(UpperCase) : UpperCase[i] = c]
    ELSE c

\* String.prototype.toLowerCase
ToLowerCase(s) == [i \in 1..Len(s) |-> LowerChar(s[i])]

IsSpace(c) == c \in {" ", "\t"}

RECURSIVE TrimStart(_)
TrimStart(s) ==
  IF s # << >> /\ IsSpace(Head(s)) THEN TrimStart(Tail(s)) ELSE s

RECURSIVE TrimEnd(_)
TrimEnd(s) ==
  IF s # << >> /\ IsSpace(s[Len(s)]) THEN TrimEnd(SubSeq(s, 1, Len(s) - 1)) ELSE s

\* String.prototype.trim
Trim(s) == TrimEnd(TrimStart(s))

\* s.replace(/\s+/g, ' ')
RECURSIVE CollapseSpaces(_)
CollapseSpaces(s) ==
  IF s = << >> THEN << >>
  ELSE IF IsSpace(Head(s))
    THEN <<" ">> \o CollapseSpaces(TrimStart(s))
    ELSE <<Head(s)>> \o CollapseSpaces(Tail(s))

\* text.toLowerCase().replace(/\s+/g, ' ').trim()
Normalized(s) == Trim(CollapseSpaces(ToLowerCase(s)))

\* String.prototype.includes
Includes(s, k) ==
  \E i \in 0..(Len(s) - Len(k)) : SubSeq(s, i + 1, i + Len(k)) = k

\* A priority lookup that compares the text as written.
computeKeywordPriorityCaseSensitive(text) ==
  LET hits == {i \in 1..Len(KEYWORD_PRIORITIES) : Includes(text, KEYWORD_PRIORITIES[i])} IN
    IF hits = {} THEN DEFAULT_PRIORITY
    ELSE (CHOOSE i \in hits : \A j \in hits : i <= j) - 1

computeKeywordPriority(text) ==
  LET lower == ToLowerCase(text)
      hits == {i \in 1..Len(KEYWORD_PRIORITIES) : Includes(lower, KEYWORD_PRIORITIES[i])} IN
    IF hits = {} THEN DEFAULT_PRIORITY
    ELSE (CHOOSE i \in hits : \A j \in hits : i <= j) - 1

\* Pieces of ingredient text; a text is up to MaxWords of them in a row.
Words ==
  { <<"O", "i", "l">>, <<"S", "a", "l", "t">>, <<"b", "u", "t", "t", "e", "r">>,
    <<"p", "o", "r", "k">>, <<" ">>, <<"o", "i">>, <<"k", "a", "l", "e">> }

RECURSIVE Concat(_)
Concat(ws) == IF ws = << >> THEN << >> ELSE Head(ws) \o Concat(Tail(ws))

PrioTexts == {Concat(ws) : ws \in SeqsUpTo(Words, MaxWords)}

PrioInit ==
  /\ prioText \in PrioTexts
  /\ prioPc = "ready"
  /\ prioResult = -1

\* computeKeywordPriority(text)
ComputePriority ==
  /\ prioPc = "ready"
  /\ prioResult' = computeKeywordPriority(prioText)
  /\ prioPc' = "done"
  /\ UNCHANGED <<prioText, nonPrioVars>>

PrioNext == ComputePriority

\* An ingredient that is not a string (its .trim is not a function).
NotAString == <<"<number>">>

IngredientTexts ==
  { <<"s", "a", "l", "t">>, <<" ", "s", "a", "l", "t">>, <<"O", "i", "l">>,
    <<"k", "a", "l", "e">>, NotAString }

\* A recipe of the request: title '' or absent is falsy; the ingredients
\* field may be absent.
ConsRecipeInputs ==
  {[title |-> ti] : ti \in {"A", ""}}
    \cup [title : {"A", ""}, ingredients : SeqsUpTo(IngredientTexts, MaxIngredients)]

\* Recipe A with "2 tbsp olive oil", "1 tsp salt", "3 cloves garlic" and
\* recipe B with "salt, to taste".
OliveOil ==
  <<"2", " ", "t", "b", "s", "p", " ", "o", "l", "i", "v", "e", " ", "o", "i", "l">>

TspSalt ==
  <<"1", " ", "t", "s", "p", " ", "s", "a", "l", "t">>

ClovesGarlic ==
  <<"3", " ", "c", "l", "o", "v", "e", "s", " ", "g", "a", "r", "l", "i", "c">>

SaltToTaste ==
  <<"s", "a", "l", "t", ",", " ", "t", "o", " ", "t", "a", "s", "t", "e">>

ExampleRecipes ==
  << [title |-> "A", ingredients |-> <<OliveOil, TspSalt, ClovesGarlic>>],
     [title |-> "B", ingredients |-> <<SaltToTaste>>] >>

ConsInputs == SeqsUpTo(ConsRecipeInputs, MaxConsRecipes) \cup {ExampleRecipes}

\* `Recipe ${recipeIndex + 1}`
DefaultTitle(n) == <<"Recipe 1", "Recipe 2", "Recipe 3", "Recipe 4", "Recipe 5">>[n]

HasIngredients(recipe) == "ingredients" \in DOMAIN recipe

\* ingredient.trim() on a value that is not a string throws a TypeError.
FlattenThrows(recs) ==
  \E i \in 1..Len(recs) :
    HasIngredients(recs[i]) /\
      \E j \in 1..Len(recs[i].ingredients) : recs[i].ingredients[j] = NotAString

\* Step 1: the flattened list of {ingredient, recipeTitle}.
RECURSIVE AllIngredientsFrom(_, _)
AllIngredientsFrom(recs, n) ==
  IF n > Len(recs) THEN << >>
  ELSE LET recipe == recs[n]
           title == IF recipe.title = "" THEN DefaultTitle(n) ELSE recipe.title
           own == IF HasIngredients(recipe)
                    THEN [j \in 1..Len(recipe.ingredients) |->
                            [ingredient |-> Trim(recipe.ingredients[j]),
                             recipeTitle |-> title]]
                    ELSE << >> IN
         own \o AllIngredientsFrom(recs, n + 1)

AllIngredients(recs) == AllIngredientsFrom(recs, 1)

Range(q) == {q[i] : i \in 1..Len(q)}

\* Set.prototype.add, the set kept in insertion order.
AddTitle(titles, title) ==
  IF title \in Range(titles) THEN titles ELSE Append(titles, title)

\* Steps 2 and 3: the values of ingredientMap in insertion order, each with
\* its contributor set, first index and priority.
RECURSIVE UniqueFrom(_, _, _)
UniqueFrom(all, n, acc) ==
  IF n > Len(all) THEN acc
  ELSE LET key == all[n].ingredient
           title == IF all[n].recipeTitle = "" THEN "Unknown Recipe"
                    ELSE all[n].recipeTitle
           known == {i \in 1..Len(acc) : acc[i].ingredient = key} IN
         IF known = {}
           THEN UniqueFrom(all, n + 1,
                  Append(acc, [ingredient |-> key, recipes |-> <<title>>,
                               firstIndex |-> Len(acc),
                               priority |-> computeKeywordPriority(key)]))
           ELSE UniqueFrom(all, n + 1,
                  [i \in 1..Len(acc) |->
                     IF i \in known
                       THEN [acc[i] EXCEPT !.recipes = AddTitle(acc[i].recipes, title)]
                       ELSE acc[i]])

UniqueIngredients(recs) == UniqueFrom(AllIngredients(recs), 1, << >>)

\* A comparator that keeps the order of first appearance only.
SortsBeforeByAppearance(a, b) == a.firstIndex < b.firstIndex

\* The comparator of the manual sort: a sorts before b.
SortsBefore(a, b) ==
  IF a.priority # b.priority THEN a.priority < b.priority
  ELSE a.firstIndex < b.firstIndex

RECURSIVE SortEntries(_)
SortEntries(entries) ==
  IF entries = << >> THEN << >>
  ELSE LET least == CHOOSE i \in 1..Len(entries) :
                      \A j \in 1..Len(entries) : j # i => SortsBefore(entries[i], entries[j])
           rest == [k \in 1..(Len(entries) - 1) |->
                      IF k < least THEN entries[k] ELSE entries[k + 1]] IN
         <<entries[least]>> \o SortEntries(rest)

OutputEntry(entry) == [ingredient |-> entry.ingredient, recipes |-> entry.recipes]

\* Step 6, fallback: manualSorted.
ManualSorted(recs) ==
  LET sorted == SortEntries(UniqueIngredients(recs)) IN
    [i \in 1..Len(sorted) |-> OutputEntry(sorted[i])]

\* The lines a generative response may hold.
ResponseLines ==
  { <<"s", "a", "l", "t">>, <<"o", "i", "l">>, <<"r", "i", "c", "e">>, <<" ">> }

Responses == SeqsUpTo(ResponseLines, MaxLines)

NonBlank(line) == Len(line) > 0

\* A matching that knows the exact match only.
MatchLineExactOnly(unique, line) ==
  LET exact == {i \in 1..Len(unique) : unique[i].ingredient = line} IN
    IF exact # {} THEN OutputEntry(unique[CHOOSE i \in exact : TRUE])
    ELSE [ingredient |-> line, recipes |-> <<"Unknown Recipe">>]

\* Step 5: one line of the response matched back to the unique ingredients:
\* ingredientMap.get(line) || normalizedMap.get(normalized), where a later
\* record overwrites an earlier one under the same normalized key.
MatchLine(unique, line) ==
  LET exact == {i \in 1..Len(unique) : unique[i].ingredient = line}
      fuzzy == {i \in 1..Len(unique) : Normalized(unique[i].ingredient) = Normalized(line)} IN
    IF exact # {} THEN OutputEntry(unique[CHOOSE i \in exact : TRUE])
    ELSE IF fuzzy # {}
      THEN OutputEntry(unique[CHOOSE i \in fuzzy : \A j \in fuzzy : j <= i])
      ELSE [ingredient |-> line, recipes |-> <<"Unknown Recipe">>]

AiConsolidated(recs, response) ==
  LET trimmed == [i \in 1..Len(response) |-> Trim(response[i])]
      lines == SelectSeq(trimmed, NonBlank)
      unique == UniqueIngredients(recs) IN
    [i \in 1..Len(lines) |-> MatchLine(unique, lines[i])]

\* A consolidator that returns the matched lines even when there are none.
ResultAfterResponseUnchecked(recs, response) == AiConsolidated(recs, response)

\* aiConsolidated && aiConsolidated.length > 0 ? aiConsolidated : manualSorted
ResultAfterResponse(recs, response) ==
  LET ai == AiConsolidated(recs, response) IN
    IF Len(ai) > 0 THEN ai ELSE ManualSorted(recs)

\* const model = process.env.OPENAI_MODEL || 'gpt-4';
\* model === 'gpt-4' && modelError.message?.includes('gpt-4')
ConsFallsBack(mentionsGpt4) == cfgModel = "unset" /\ mentionsGpt4

\* process.env.OPENAI_MODEL || 'gpt-4'
ConfiguredModel == IF cfgModel = "unset" THEN "gpt-4" ELSE cfgModel

\* A consolidator that asks the generative service whatever the flag says.
UsesGenerativeAlways == TRUE

\* if (USE_OPENAI_CONSOLIDATION)
UsesGenerative == consUseOpenAI

\* getOpenAIClient() returns a client: the cached one, or a new one when the
\* API key is set; otherwise it throws.
ClientAvailable == openaiClient \/ apiKeySet

\* The API key and the model name are read in generative mode only.
ConsInit ==
  /\ consRecipes \in ConsInputs
  /\ consUseOpenAI \in BOOLEAN
  /\ apiKeySet \in BOOLEAN
  /\ cfgModel \in {"unset", "gpt-4-turbo", "gpt-3.5-turbo"}
  /\ consUseOpenAI \/ (apiKeySet /\ cfgModel = "unset")
  /\ consPc = "ready"
  /\ consResult = << >>
  /\ openaiClient = FALSE
  /\ consLog = << >>
  /\ consReturned = << >>

\* The promise of consolidateIngredients resolves with value.
ConsReturns(value) ==
  /\ consPc' = "returned"
  /\ consResult' = value
  /\ consReturned' = Append(consReturned, [threw |-> FALSE, value |-> value])

\* The promise of consolidateIngredients rejects.
ConsThrows ==
  /\ consPc' = "threw"
  /\ consResult' = << >>
  /\ consReturned' = Append(consReturned, [threw |-> TRUE, value |-> << >>])

\* consolidateIngredients(recipes) up to its first await, or to its return
\* when no generative call is made.
Consolidate ==
  /\ consPc = "ready"
  /\ consLog' = << >>
  /\ IF Len(consRecipes) = 0
       THEN ConsReturns(<< >>) /\ UNCHANGED openaiClient
       ELSE IF FlattenThrows(consRecipes)
         THEN ConsThrows /\ UNCHANGED openaiClient
         ELSE IF Len(AllIngredients(consRecipes)) = 0
           THEN ConsReturns(<< >>) /\ UNCHANGED openaiClient
           ELSE IF UsesGenerative /\ ClientAvailable
             THEN /\ consPc' = "awaitingPrimary"
                  /\ consResult' = << >>
                  /\ openaiClient' = TRUE
                  /\ UNCHANGED consReturned
             ELSE ConsReturns(ManualSorted(consRecipes)) /\ UNCHANGED openaiClient
  /\ UNCHANGED <<consRecipes, consUseOpenAI, nonConsVars>>

\* The model the pending request names.
RequestedModel == IF consPc = "awaitingFallback" THEN "gpt-3.5-turbo" ELSE ConfiguredModel

\* chat.completions.create resolves with text content.
GenerativeResponds ==
  /\ consPc \in {"awaitingPrimary", "awaitingFallback"}
  /\ \E response \in Responses :
       /\ ConsReturns(ResultAfterResponse(consRecipes, response))
       /\ consLog' = Append(consLog, [model |-> RequestedModel,
                                      outcome |-> "resolved", lines |-> response])
  /\ UNCHANGED <<consRecipes, consUseOpenAI, openaiClient, nonConsVars>>

\* chat.completions.create rejects, or resolves without text content (then
\* .trim() throws into the outer catch, as a rejection that does not name
\* the model does).
GenerativeFails ==
  /\ consPc \in {"awaitingPrimary", "awaitingFallback"}
  /\ consLog' = Append(consLog, [model |-> RequestedModel,
                                 outcome |-> "rejected", lines |-> << >>])
  /\ \E mentionsGpt4 \in BOOLEAN :
       IF consPc = "awaitingPrimary" /\ ConsFallsBack(mentionsGpt4)
         THEN consPc' = "awaitingFallback" /\ UNCHANGED <<consResult, consReturned>>
         ELSE ConsReturns(ManualSorted(consRecipes))
  /\ UNCHANGED <<consRecipes, consUseOpenAI, openaiClient, nonConsVars>>

\* The endpoint's caller posts the same recipes again.
ConsolidateAgain ==
  /\ consPc \in {"returned", "threw"}
  /\ Len(consReturned) < MaxCalls
  /\ consPc' = "ready"
  /\ consResult' = << >>
  /\ UNCHANGED <<consRecipes, consUseOpenAI, openaiClient, consLog, consReturned,
                 nonConsVars>>

ConsNext ==
  \/ Consolidate
  \/ GenerativeResponds
  \/ GenerativeFails

ConsRepeatNext ==
  \/ ConsNext
  \/ ConsolidateAgain

\* ----------------------------------------------------- consolidator claims
RECURSIVE IngredientCount(_, _)
IngredientCount(recs, n) ==
  IF n > Len(recs) THEN 0
  ELSE (IF HasIngredients(recs[n]) THEN Len(recs[n].ingredients) ELSE 0)
         + IngredientCount(recs, n + 1)

\* The ingredient strings of the input exactly as given.
DistinctExact(recs) ==
  UNION {Range(recs[n].ingredients) : n \in {m \in 1..Len(recs) : HasIngredients(recs[m])}}

\* The titles under which the recipes holding the exact string x are listed.
TitlesHolding(recs, x) ==
  {IF recs[n].title = "" THEN DefaultTitle(n) ELSE recs[n].title :
     n \in {m \in 1..Len(recs) : HasIngredients(recs[m]) /\ x \in Range(recs[m].ingredients)}}

\* C9: in deterministic and in generative mode, the list returned by
\* consolidateIngredients has at most as many entries as the recipes have
\* ingredients in total and at least as many as there are distinct exact
\* ingredient strings in the input (compared as given, whitespace included).
C9_OutputLengthBounds ==
  consPc = "returned" =>
    /\ Len(consResult) <= IngredientCount(consRecipes, 1)
    /\ Len(consResult) >= Cardinality(DistinctExact(consRecipes))

\* C10: with generative mode disabled, every distinct exact ingredient string
\* of the input is the ingredient of exactly one returned entry, and that
\* entry's recipes are, as a set, the titles of the recipes that hold the
\* string.
C10_EachExactStringOnce ==
  (consPc = "returned" /\ ~consUseOpenAI) =>
    \A x \in DistinctExact(consRecipes) :
      LET at == {i \in 1..Len(consResult) : consResult[i].ingredient = x} IN
        /\ Cardinality(at) = 1
        /\ \A i \in at : Range(consResult[i].recipes) = TitlesHolding(consRecipes, x)

FirstAppearance(recs, x) ==
  LET all == AllIngredients(recs) IN
    CHOOSE k \in 1..Len(all) :
      /\ all[k].ingredient = x
      /\ \A m \in 1..(k - 1) : all[m].ingredient # x

\* C12: with generative mode disabled the returned list is in ascending
\* order of keyword priority and, among entries of equal priority, in
\* ascending order of first appearance in the flattened input; for the
\* example recipes the order is olive oil, garlic, "1 tsp salt",
\* "salt, to taste".
C12_OrderedByPriorityThenAppearance ==
  (consPc = "returned" /\ ~consUseOpenAI) =>
    /\ \A i, j \in 1..Len(consResult) :
         i < j =>
           LET pi == computeKeywordPriority(consResult[i].ingredient)
               pj == computeKeywordPriority(consResult[j].ingredient) IN
             \/ pi < pj
             \/ /\ pi = pj
                /\ FirstAppearance(consRecipes, consResult[i].ingredient)
                     < FirstAppearance(consRecipes, consResult[j].ingredient)
    /\ consRecipes = ExampleRecipes =>
         [i \in 1..Len(consResult) |-> consResult[i].ingredient]
           = <<OliveOil, ClovesGarlic, TspSalt, SaltToTaste>>

C12_Witness ==
  /\ consPc = "returned" /\ ~consUseOpenAI
  /\ consRecipes = ExampleRecipes
  /\ Len(consResult) = 4

\* C14: for every recipes input the endpoint accepts (a non-empty list),
\* consolidateIngredients does not fail.
C14_NeverFails == Len(consRecipes) > 0 => consPc # "threw"

\* The generative attempt of the finished call gave nothing usable: the
\* client could not be built, the last request was rejected, or the response
\* held no non-blank line.
GenerativeGaveNothing ==
  IF consLog = << >> THEN ~ClientAvailable
  ELSE LET last == consLog[Len(consLog)] IN
         \/ last.outcome = "rejected"
         \/ \A i \in 1..Len(last.lines) : \A k \in 1..Len(last.lines[i]) :
              IsSpace(last.lines[i][k])

LastResponseLines ==
  LET given == consLog[Len(consLog)].lines
      trimmed == [i \in 1..Len(given) |-> Trim(given[i])] IN
    SelectSeq(trimmed, NonBlank)

\* The entry is what the line stands for among the records: the record of
\* that exact text; else a record of the same text once lower-cased and
\* whitespace-collapsed; else the line itself under "Unknown Recipe".
EntryForLine(records, line, entry) ==
  LET exact == {i \in 1..Len(records) : records[i].ingredient = line}
      alike == {i \in 1..Len(records) :
                  Trim(CollapseSpaces(ToLowerCase(records[i].ingredient)))
                    = Trim(CollapseSpaces(ToLowerCase(line)))} IN
    IF exact # {}
      THEN \E i \in exact : /\ entry.ingredient = records[i].ingredient
                            /\ entry.recipes = records[i].recipes
    ELSE IF alike # {}
      THEN \E i \in alike : /\ entry.ingredient = records[i].ingredient
                            /\ entry.recipes = records[i].recipes
    ELSE entry = [ingredient |-> line, recipes |-> <<"Unknown Recipe">>]

\* C26: when the call returns what the generative response gave, the list
\* has one entry per non-blank line, in order, and each entry is the record
\* matched exactly, else the record matched after lower-casing and
\* collapsing whitespace, with its text and all its contributors, else the
\* line with the contributor "Unknown Recipe".
C26_LinesMatchedBack ==
  (consPc = "returned" /\ consLog # << >>
     /\ consLog[Len(consLog)].outcome = "resolved"
     /\ Len(LastResponseLines) > 0) =>
    /\ Len(consResult) = Len(LastResponseLines)
    /\ \A k \in 1..Len(LastResponseLines) :
         EntryForLine(UniqueIngredients(consRecipes), LastResponseLines[k],
                      consResult[k])

\* The response "oil", "rice" for the ingredient "Oil" contributed by recipe
\* A: a match after lower-casing, and an orphan line.
C26_Witness ==
  /\ consPc = "returned" /\ Len(consLog) = 1
  /\ consLog[1].lines = << <<"o", "i", "l">>, <<"r", "i", "c", "e">> >>
  /\ consResult = << [ingredient |-> <<"O", "i", "l">>, recipes |-> <<"A">>],
                     [ingredient |-> <<"r", "i", "c", "e">>,
                      recipes |-> <<"Unknown Recipe">>] >>

\* The characters a and b are the same letter, whatever their case.
SameLetter(a, b) ==
  \/ a = b
  \/ \E n \in 1..Len(UpperCase) : {a, b} = {UpperCase[n], LowerCase[n]}

\* The keyword occurs in the text as a substring, case ignored.
OccursIgnoringCase(keyword, text) ==
  \E i \in 1..(Len(text) - Len(keyword) + 1) :
    \A j \in 1..Len(keyword) : SameLetter(text[i + j - 1], keyword[j])

\* C13: computeKeywordPriority returns the rank (from 0) of the first keyword
\* of the table, in the order oil, butter, garlic, ..., pork, that occurs in
\* the text as a substring with case ignored, and 31, the length of the
\* table, when none occurs.
C13_RankOfFirstKeyword ==
  /\ Len(KEYWORD_PRIORITIES) = 31
  /\ KEYWORD_PRIORITIES[1] = <<"o", "i", "l">>
  /\ KEYWORD_PRIORITIES[2] = <<"b", "u", "t", "t", "e", "r">>
  /\ KEYWORD_PRIORITIES[3] = <<"g", "a", "r", "l", "i", "c">>
  /\ KEYWORD_PRIORITIES[31] = <<"p", "o", "r", "k">>
  /\ prioPc = "done" =>
       LET occurring == {i \in 1..Len(KEYWORD_PRIORITIES) :
                           OccursIgnoringCase(KEYWORD_PRIORITIES[i], prioText)} IN
         IF occurring = {} THEN prioResult = 31
         ELSE /\ prioResult + 1 \in occurring
              /\ \A i \in occurring : prioResult + 1 <= i

C13_Witness ==
  /\ prioPc = "done"
  /\ prioText = <<"b", "u", "t", "t", "e", "r", "O", "i", "l">>
  /\ prioResult = 0

\* ------------------------------------------------------ client disconnect
NotClosed == [open |-> TRUE]

\* The client goes away while combineRecipesStream is awaiting the service
\* or iterating its stream.  The route registers no listener for it, so no
\* state of the route changes.
ClientDisconnects ==
  /\ rpc \in {"creating", "iterating"}
  /\ closedAt = NotClosed
  /\ closedAt' = [writes |-> Len(written), saves |-> Len(saveCalls)]
  /\ UNCHANGED <<clientVars, serverVars, consVars, prioVars, parseVars>>

DisconnectNext == ServerNext \/ ClientDisconnects

\* ----------------------------------------------------- later route claims
\* C25: once the client has disconnected during the generative stream, the
\* route makes no further write to the response and no saveGuide call.
C25_NoWorkAfterDisconnect ==
  closedAt # NotClosed =>
    /\ Len(written) = closedAt.writes
    /\ Len(saveCalls) = closedAt.saves

Malformed(body) ==
  \/ NoRecipeGiven(body)
  \/ HasInvalidType(body)
  \/ \E i \in 1..Len(body.recipes) :
       body.recipes[i].type = "text" /\ TextIsInvalid(body.recipes[i].content)

\* The extractor call of recipe i was made and got past its own validation:
\* a fetch or an extraction is under way or over.
WorkStartedFor(i) ==
  ~(reqBody.recipes[i].type = "text"
      /\ TextIsInvalid(reqBody.recipes[i].content))

\* C22: for a malformed combine request (no recipes, a recipe whose kind is
\* neither url nor text, a text recipe whose content is not a non-empty
\* string) no extractor work is started for any recipe of the request and
\* nothing is streamed.
C22_MalformedRejectedBeforeWork ==
  (rpc # "idle" /\ Malformed(reqBody)) =>
    /\ \A i \in 1..Len(extractor) : ~WorkStartedFor(i)
    /\ written = << >>

\* ================================================================ parser
\* server/services/recipeParser.js: parseRecipeFromUrl and parseRecipeFromText.
\* Texts, titles, list items and page bodies are sequences of characters.

\* text.trim().length < 50
SHORT_TEXT_LIMIT == 50

\* ingredients.slice(0, 50), instructions.slice(0, 50)
MAX_LIST_ITEMS == 50

\* bodyText.length > 100
MIN_BODY_LENGTH == 100

\* $('body').text().substring(0, 2000)
RAW_CONTENT_LIMIT == 2000

Xs(n) == [i \in 1..n |-> "x"]

\* Arguments of parseRecipeFromText: the empty string, a number, short
\* texts, a blank text, a text of 51 characters of which 49 remain after
\* trimming, and texts of trimmed length 50.
Texts ==
  { << >>, NotAString, <<"s", "h", "o", "r", "t">>, <<" ", " ">>,
    <<" ">> \o Xs(SHORT_TEXT_LIMIT - 1) \o <<" ">>,
    Xs(SHORT_TEXT_LIMIT),
    <<" ">> \o Xs(SHORT_TEXT_LIMIT) }

\* A length test that forgets to trim.
IsShortTextUntrimmed(text) == Len(text) < SHORT_TEXT_LIMIT

\* text.trim().length < 50
IsShortText(text) == Len(Trim(text)) < SHORT_TEXT_LIMIT

\* !text || typeof text !== 'string'
InvalidText(text) == text = << >> \/ text = NotAString

ManualTitle == <<"M", "a", "n", "u", "a", "l", " ", "R", "e", "c", "i", "p", "e">>

UntitledRecipe == <<"U", "n", "t", "i", "t", "l", "e", "d", " ", "R", "e", "c", "i", "p", "e">>

Soup == <<"S", "o", "u", "p">>

Stew == <<"S", "t", "e", "w">>

Rice == <<"1", " ", "c", "u", "p", " ", "r", "i", "c", "e">>

Salt == <<"s", "a", "l", "t">>

Boil == <<"B", "o", "i", "l", " ", "t", "h", "e", " ", "r", "i", "c", "e">>

ManualSource == "manual input"

GivenUrl == "https://example.com/soup"

\* The record of the short-text return and of the catch of
\* parseRecipeFromText: no ingredients and no instructions field.
MinimalRecord(text) ==
  [title |-> ManualTitle, source |-> ManualSource, rawContent |-> text]

\* A list of one more item than the cap.
TooMany(item) == [i \in 1..(MAX_LIST_ITEMS + 1) |-> item]

\* What the selectors of parseRecipeFromUrl found: a title (or the default
\* 'Untitled Recipe'), the two lists, and the text of the body.
ScrapedPages ==
  [fetched : {TRUE},
   title : {UntitledRecipe, Soup},
   ingredients : {<< >>, <<Salt>>, TooMany(Salt)},
   instructions : {<< >>, <<Boil>>, TooMany(Boil)},
   body : {<< >>, Xs(MIN_BODY_LENGTH), Xs(MIN_BODY_LENGTH + 1),
           Xs(RAW_CONTENT_LIMIT + 1)}]

FetchErrors == {"timeout", "Request failed with status code 404"}

\* `Failed to parse recipe from URL: ${error.message}`
UrlFailure(msg) ==
  IF msg = "timeout" THEN "Failed to parse recipe from URL: timeout"
  ELSE "Failed to parse recipe from URL: Request failed with status code 404"

\* The objects JSON.parse can give for the generative response: each of
\* title, ingredients and instructions present or missing; lists that are
\* empty, all blank, partly blank, holding a number, or longer than the cap.
ExtractionData ==
  LET full == [title : {<< >>, <<" ">>, Stew},
               ingredients : {<< >>, <<<<" ">>, << >>>>, <<Rice>>,
                              <<Rice, <<" ", " ">>, Salt>>,
                              <<Rice, NotAString>>, TooMany(Rice)},
               instructions : {<< >>, <<<<" ">>>>, <<Boil>>, <<NotAString>>,
                               TooMany(Boil)}]
  IN {[f \in D |-> r[f]] :
        D \in SUBSET {"title", "ingredients", "instructions"}, r \in full}

\* (item) => item && item.trim().length > 0
KeepsItem(item) == item # << >> /\ Len(Trim(item)) > 0

\* list.filter((item) => item && item.trim().length > 0)
KeepItems(list) == SelectSeq(list, KeepsItem)

\* item.trim is not a function: the filter throws a TypeError on an item
\* that is truthy and not a string.
FilterThrows(list) == \E i \in 1..Len(list) : list[i] = NotAString

\* list.slice(0, n), text.substring(0, n)
Slice(list, n) == SubSeq(list, 1, IF Len(list) < n THEN Len(list) ELSE n)

\* parsedData.ingredients && parsedData.ingredients.length > 0
HasItems(data, field) == field \in DOMAIN data /\ Len(data[field]) > 0

\* Lines 302-311 of parseRecipeFromUrl: the list after the merge of the
\* response. A throwing filter leaves the list as it was, and the statements
\* after it are not reached.
MergedIngredients(page, data) ==
  IF HasItems(data, "ingredients") /\ ~FilterThrows(data.ingredients)
  THEN KeepItems(data.ingredients) ELSE page.ingredients

MergedInstructions(page, data) ==
  IF /\ ~(HasItems(data, "ingredients") /\ FilterThrows(data.ingredients))
     /\ HasItems(data, "instructions") /\ ~FilterThrows(data.instructions)
  THEN KeepItems(data.instructions) ELSE page.instructions

\* The return of parseRecipeFromUrl. The title is the scraped one: title is
\* a const, so the assignment of the generative title throws into the catch.
UrlRecord(page, ingredients, instructions) ==
  [title |-> IF page.title # << >> THEN page.title ELSE <<"R", "e", "c", "i", "p", "e", " ", "f", "r", "o", "m", " ", "U", "R", "L">>,
   source |-> GivenUrl,
   ingredients |-> Slice(ingredients, MAX_LIST_ITEMS),
   instructions |-> Slice(instructions, MAX_LIST_ITEMS),
   rawContent |-> Slice(page.body, RAW_CONTENT_LIMIT)]

\* The return of the try block of parseRecipeFromText.
TextRecord(text, data) ==
  [title |-> IF "title" \in DOMAIN data /\ data.title # << >>
             THEN data.title ELSE ManualTitle,
   source |-> ManualSource,
   ingredients |-> IF "ingredients" \in DOMAIN data
                   THEN KeepItems(data.ingredients) ELSE << >>,
   instructions |-> IF "instructions" \in DOMAIN data
                    THEN KeepItems(data.instructions) ELSE << >>,
   rawContent |-> text]

\* The filters of the return expression throw.
TextRecordThrows(data) ==
  \/ "ingredients" \in DOMAIN data /\ FilterThrows(data.ingredients)
  \/ "instructions" \in DOMAIN data /\ FilterThrows(data.instructions)

\* getOpenAIClient() of the parser: the cached client, or a new one when the
\* API key is set; otherwise it throws.
ParserClientAvailable == parserClient \/ apiKeySet

\* The message of the service when the requested model is not available.
ModelMissing(model) ==
  CASE model = "gpt-4" -> "The model gpt-4 does not exist"
    [] model = "gpt-4-turbo" -> "The model gpt-4-turbo does not exist"
    [] OTHER -> "The model gpt-3.5-turbo does not exist"

\* The messages a rejected request for a model can carry.
ParserErrors(model) == {"timeout", "", ModelMissing(model)}

\* modelError.message?.includes('gpt-4')
MessageIncludesGpt4(msg) ==
  msg \in {ModelMissing("gpt-4"), ModelMissing("gpt-4-turbo")}

\* model === 'gpt-4' && modelError.message?.includes('gpt-4')
ParserFallsBack(msg) == ConfiguredModel = "gpt-4" /\ MessageIncludesGpt4(msg)

\* if (ingredients.length === 0 || instructions.length === 0), and then
\* if (bodyText.length > 100)
NeedsExtraction(page) ==
  /\ Len(page.ingredients) = 0 \/ Len(page.instructions) = 0
  /\ Len(Slice(page.body, 5000)) > MIN_BODY_LENGTH

ParserInit ==
  /\ apiKeySet \in BOOLEAN
  /\ cfgModel \in {"unset", "gpt-4", "gpt-4-turbo", "gpt-3.5-turbo"}
  /\ parseFn \in {"url", "text"}
  /\ parseText \in (IF parseFn = "text" THEN Texts ELSE {<< >>})
  /\ parsePage = [fetched |-> FALSE]
  /\ parsePc = "ready"
  /\ parseResult = [none |-> TRUE]
  /\ parseLog = << >>
  /\ parserClient = FALSE

ParseReturns(record) == parsePc' = "returned" /\ parseResult' = record

ParseThrows(msg) == parsePc' = "threw" /\ parseResult' = [error |-> msg]

\* Catch blocks that rethrow.
ExtractionRethrown == ParseThrows("Failed to parse recipe")

\* The catch blocks that end a failed extraction: parseRecipeFromText
\* returns the minimal record, parseRecipeFromUrl goes on with what the
\* scraping found.
ExtractionAbandoned ==
  IF parseFn = "text" THEN ParseReturns(MinimalRecord(parseText))
  ELSE ParseReturns(UrlRecord(parsePage, parsePage.ingredients,
                              parsePage.instructions))

\* parseRecipeFromText(text) up to its first await.
ParseFromText ==
  /\ parsePc = "ready" /\ parseFn = "text"
  /\ IF InvalidText(parseText)
     THEN ParseThrows("Invalid recipe text provided") /\ UNCHANGED parserClient
     ELSE IF IsShortText(parseText)
     THEN ParseReturns(MinimalRecord(parseText)) /\ UNCHANGED parserClient
     ELSE IF ParserClientAvailable
     THEN /\ parsePc' = "awaitingPrimary" /\ parserClient' = TRUE
          /\ UNCHANGED parseResult
     ELSE ExtractionAbandoned /\ UNCHANGED parserClient
  /\ UNCHANGED <<parseFn, parseText, parsePage, parseLog, nonParseVars>>

\* parseRecipeFromUrl(url) up to await axios.get(url).
ParseFromUrl ==
  /\ parsePc = "ready" /\ parseFn = "url"
  /\ parsePc' = "fetching"
  /\ UNCHANGED <<parseFn, parseText, parsePage, parseResult, parseLog,
                 parserClient, nonParseVars>>

\* axios.get rejects: the outer catch rethrows.
FetchFails ==
  /\ parsePc = "fetching"
  /\ \E msg \in FetchErrors : ParseThrows(UrlFailure(msg))
  /\ UNCHANGED <<parseFn, parseText, parsePage, parseLog, parserClient,
                 nonParseVars>>

\* axios.get resolves and the page is scraped, up to the next await or to
\* the return.
FetchSucceeds ==
  /\ parsePc = "fetching"
  /\ \E page \in ScrapedPages :
       /\ parsePage' = page
       /\ IF ~NeedsExtraction(page)
          THEN /\ ParseReturns(UrlRecord(page, page.ingredients,
                                         page.instructions))
               /\ UNCHANGED parserClient
          ELSE IF ParserClientAvailable
          THEN /\ parsePc' = "awaitingPrimary" /\ parserClient' = TRUE
               /\ UNCHANGED parseResult
          ELSE /\ ParseReturns(UrlRecord(page, page.ingredients,
                                         page.instructions))
               /\ UNCHANGED parserClient
  /\ UNCHANGED <<parseFn, parseText, parseLog, nonParseVars>>

Awaiting == parsePc \in {"awaitingPrimary", "awaitingFallback"}

ParserRequestedModel ==
  IF parsePc = "awaitingPrimary" THEN ConfiguredModel ELSE "gpt-3.5-turbo"

\* What the log keeps of a request that gave no object.
NoData == << >>

ParseLogged(outcome, msg, data) ==
  parseLog' = Append(parseLog, [model |-> ParserRequestedModel,
                                outcome |-> outcome, message |-> msg,
                                data |-> data])

\* chat.completions.create resolves and JSON.parse gives an object.
ExtractionResponds ==
  /\ Awaiting
  /\ \E data \in ExtractionData :
       /\ ParseLogged("resolved", "", data)
       /\ IF parseFn = "text"
          THEN IF TextRecordThrows(data)
               THEN ParseReturns(MinimalRecord(parseText))
               ELSE ParseReturns(TextRecord(parseText, data))
          ELSE ParseReturns(UrlRecord(parsePage,
                                      MergedIngredients(parsePage, data),
                                      MergedInstructions(parsePage, data)))
  /\ UNCHANGED <<parseFn, parseText, parsePage, parserClient, nonParseVars>>

\* chat.completions.create resolves with no choice, no content, text that
\* is not JSON, or JSON that is null: the statements after it throw.
ExtractionUnparsable ==
  /\ Awaiting
  /\ ParseLogged("unparsable", "", NoData)
  /\ ExtractionAbandoned
  /\ UNCHANGED <<parseFn, parseText, parsePage, parserClient, nonParseVars>>

\* chat.completions.create rejects.
ExtractionFails ==
  /\ Awaiting
  /\ \E msg \in ParserErrors(ParserRequestedModel) :
       /\ ParseLogged("rejected", msg, NoData)
       /\ IF parsePc = "awaitingPrimary" /\ ParserFallsBack(msg)
          THEN parsePc' = "awaitingFallback" /\ UNCHANGED parseResult
          ELSE ExtractionAbandoned
  /\ UNCHANGED <<parseFn, parseText, parsePage, parserClient, nonParseVars>>

ParserNext ==
  \/ ParseFromText
  \/ ParseFromUrl
  \/ FetchFails
  \/ FetchSucceeds
  \/ ExtractionResponds
  \/ ExtractionUnparsable
  \/ ExtractionFails


\* ---------------------------------------------------------- parser claims
StringOfLength(text) == text # NotAString

\* C16, as stated: on every string whose trimmed length is below 50,
\* parseRecipeFromText issues no generative call and returns a record with
\* source "manual input", title "Manual Recipe" and rawContent equal to the
\* original text. The empty string is such a string and is rejected.
C16_ShortTextAlwaysMinimal ==
  (parseFn = "text" /\ StringOfLength(parseText)
     /\ Len(Trim(parseText)) < SHORT_TEXT_LIMIT /\ parsePc # "ready") =>
    /\ parsePc = "returned"
    /\ parseLog = << >>
    /\ parseResult.source = ManualSource
    /\ parseResult.title = ManualTitle
    /\ parseResult.rawContent = parseText

\* C16, amended: on every non-empty string whose trimmed length is below 50,
\* parseRecipeFromText issues no generative call and returns a record with
\* source "manual input", title "Manual Recipe" and rawContent equal to the
\* original text.
C16_NonEmptyShortTextMinimal ==
  (parseFn = "text" /\ StringOfLength(parseText) /\ parseText # << >>
     /\ Len(Trim(parseText)) < SHORT_TEXT_LIMIT /\ parsePc # "ready") =>
    /\ parsePc = "returned"
    /\ parseLog = << >>
    /\ parseResult.source = "manual input"
    /\ parseResult.title = ManualTitle
    /\ parseResult.rawContent = parseText

\* A text of 51 characters, 49 of them after trimming, came back whole.
C16_Witness ==
  /\ parseFn = "text" /\ parsePc = "returned"
  /\ Len(parseText) > SHORT_TEXT_LIMIT
  /\ Len(Trim(parseText)) < SHORT_TEXT_LIMIT
  /\ parseResult.rawContent = parseText

LongText ==
  /\ parseFn = "text" /\ StringOfLength(parseText) /\ parseText # << >>
  /\ Len(Trim(parseText)) >= SHORT_TEXT_LIMIT

\* The call ended on a failure of client construction (no request was
\* made), of a generative request, or of the parsing of its response.
ExtractionFailed ==
  /\ parsePc = "returned"
  /\ \/ parseLog = << >>
     \/ parseLog[Len(parseLog)].outcome \in {"rejected", "unparsable"}

C18_ListsDefinedRawContentPopulated ==
  parsePc = "returned" =>
    /\ {"ingredients", "instructions", "rawContent"} \subseteq
         DOMAIN parseResult
    /\ parseResult.rawContent = << >> =>
         (parseFn = "url" /\ parsePage.body = << >>)

\* C19: every record returned from a URL or from a text has at most 50
\* ingredients and at most 50 instructions.
C19_ListsCapped ==
  parsePc = "returned" =>
    /\ "ingredients" \in DOMAIN parseResult =>
         Len(parseResult.ingredients) <= MAX_LIST_ITEMS
    /\ "instructions" \in DOMAIN parseResult =>
         Len(parseResult.instructions) <= MAX_LIST_ITEMS

\* C20: when parseRecipeFromUrl asked the generative service, a list the
\* scraping found non-empty is not empty in the returned record.
C20_ScrapedListNotEmptied ==
  (parseFn = "url" /\ parsePc = "returned" /\ parseLog # << >>) =>
    /\ parsePage.ingredients # << >> => parseResult.ingredients # << >>
    /\ parsePage.instructions # << >> => parseResult.instructions # << >>

\* The error names the model that was asked.
NamesModel(msg, model) == msg = ModelMissing(model)

\* C21: at the extraction call site, as at every other, a request with the
\* configured model that fails with an error naming that model is retried
\* once with gpt-3.5-turbo when the configured model is not gpt-3.5-turbo,
\* no other failure is retried, and there are never more than two requests.
C21_SameFallbackPolicy ==
  /\ Len(parseLog) <= 2
  /\ Len(parseLog) = 2 => parseLog[2].model = "gpt-3.5-turbo"
  /\ (Len(parseLog) >= 1 /\ parseLog[1].outcome = "rejected") =>
       ((NamesModel(parseLog[1].message, parseLog[1].model)
           /\ parseLog[1].model # "gpt-3.5-turbo")
        <=> (parsePc = "awaitingFallback" \/ Len(parseLog) = 2))
  /\ (Len(parseLog) >= 1 /\ parseLog[1].outcome # "rejected") =>
       Len(parseLog) = 1

\* C27: when parseRecipeFromUrl got a response with a non-empty title, the
\* returned record carries that title, together with the non-empty
\* ingredients list of the same response.
C27_GenerativeTitleUsed ==
  LET last == parseLog[Len(parseLog)] IN
    (parseFn = "url" /\ parsePc = "returned" /\ parseLog # << >>
       /\ last.outcome = "resolved" /\ "title" \in DOMAIN last.data
       /\ Len(Trim(last.data.title)) > 0) =>
      /\ parseResult.title = last.data.title
      /\ ("ingredients" \in DOMAIN last.data
            /\ last.data.ingredients = <<Rice>>) =>
           parseResult.ingredients = <<Rice>>

\* Parked values of the server and the consolidator.
RouteIdle ==
  /\ reqBody = [other |-> "x"]
  /\ rpc = "idle" /\ extractor = << >> /\ parsedRecipes = << >>
  /\ headersSent = FALSE /\ jsonResponse = << >> /\ written = << >>
  /\ resEnded = FALSE
  /\ attempt = "primary" /\ fullText = << >> /\ upstream = << >>
  /\ streamThrew = FALSE /\ saveCalls = << >> /\ saveOutcome = "none"

ServerIdle == apiKeySet = TRUE /\ cfgModel = "unset" /\ RouteIdle

ConsIdle ==
  /\ consRecipes = << >> /\ consUseOpenAI = FALSE /\ consPc = "ready"
  /\ consResult = << >> /\ openaiClient = FALSE /\ consLog = << >>
  /\ consReturned = << >>

PrioIdle == prioText = << >> /\ prioPc = "ready" /\ prioResult = -1

ParseIdle ==
  /\ parseFn = "text" /\ parseText = << >> /\ parsePage = [fetched |-> FALSE]
  /\ parsePc = "ready" /\ parseResult = [none |-> TRUE] /\ parseLog = << >>
  /\ parserClient = FALSE

ClientSpecInit ==
  ClientInit /\ ServerIdle /\ ConsIdle /\ PrioIdle /\ ParseIdle
  /\ closedAt = NotClosed

ClientSpec == ClientSpecInit /\ [][ClientNext]_vars

ServerSpecInit ==
  ServerInit /\ ClientInit /\ ConsIdle /\ PrioIdle /\ ParseIdle
  /\ closedAt = NotClosed

ServerSpec == ServerSpecInit /\ [][ServerNext]_vars

ConsSpecInit ==
  ConsInit /\ ClientInit /\ RouteIdle /\ PrioIdle /\ ParseIdle
  /\ closedAt = NotClosed

ConsSpec == ConsSpecInit /\ [][ConsNext]_vars

\* Repeated calls, on inputs of at most MaxRepeatRecipes recipes.
ConsRepeatInit ==
  /\ ConsInit /\ ClientInit /\ RouteIdle /\ PrioIdle /\ ParseIdle
  /\ closedAt = NotClosed
  /\ Len(consRecipes) <= MaxRepeatRecipes

ConsRepeatSpec == ConsRepeatInit /\ [][ConsRepeatNext]_vars

PrioSpecInit ==
  PrioInit /\ ClientInit /\ ServerIdle /\ ConsIdle /\ ParseIdle
  /\ closedAt = NotClosed

PrioSpec == PrioSpecInit /\ [][PrioNext]_vars

ParserSpecInit ==
  ParserInit /\ ClientInit /\ RouteIdle /\ ConsIdle /\ PrioIdle
  /\ closedAt = NotClosed

\* The combine route with a client that may go away.
DisconnectSpec == ServerSpecInit /\ [][DisconnectNext]_vars

ParserSpec == ParserSpecInit /\ [][ParserNext]_vars

====
